---- MODULE Spec2Model ----
(***************************************************************************)
(* Model of phy/cluster/manual: the FeatureMasks store item of session.py  *)
(* (generate pass over the cluster store), the Session actions and event   *)
(* callbacks, and the array helpers of _utils.py.                          *)
(***************************************************************************)
EXTENDS Integers, Sequences, FiniteSets, TLC

\* ------------------------------------------------------------------ bounds
\* Number of spikes of the dataset (spike ids are 0 .. NSpikes-1).
NSpikes == 3
\* Largest cluster label of the initial model.spike_clusters in SpecGen.
MaxInitCluster == 1
\* Largest cluster id the clustering may allocate.
MaxCluster == 5
\* Number of store_all_clusters passes a behaviour may start.
MaxPasses == 2
\* Number of entries the global history may hold.
MaxHistory == 2
\* Number of views a session may show at a time.
MaxViews == 1

\* Exceptions that leave open or generate, and calls of merge, split, move,
\* undo and redo, over the life of the model.
MaxFailures == 1
MaxActions == 3
\* model.n_channels and model.metadata['nfeatures_per_channel'].
n_channels == 2
n_features == 1
\* Threshold of the unmasked channels: mean_masks > 1e-3 = 1 / ThresholdDen.
ThresholdDen == 1000
\* The loop reports its progress when iteration % 100 == 0, by steps of 100.
ReportEvery == 100

Spikes == 0 .. (NSpikes - 1)
Channels == 1 .. n_channels
\* names = ('masks', 'features')
names == <<"masks", "features">>
NameSet == {"masks", "features"}

VARIABLES
    \* the source model (read only)
    spike_clusters,   \* model.spike_clusters : spike -> cluster
    features_masks,   \* model.features_masks : spike -> flat row of <<feature, mask>>
    \* the cluster store
    disk,             \* disk store : <<cluster, name>> -> [shape, rows]
    mem,              \* memory store : cluster -> extra fields
    \* one store_all_clusters pass
    pc,               \* "idle", "loop", "extra", "close", "done", "failed",
                      \* "killed" (terminated in the loop), "ended"
    spc,              \* the spikes_per_cluster argument of the pass
    to_store,         \* <<cluster, name>> -> BOOLEAN
    spikes,           \* spikes in the clusters to be stored, ascending
    iteration,        \* index of the current spike of the loop (0-based)
    nameIdx,          \* index in names of the next field of the current spike
    cursors,          \* <<cluster, name>> -> next row (defaultdict(int))
    files,            \* keys of the local files / arrays dictionaries
    \* observation of the pass
    handles,          \* cluster files opened and not closed : <<pass, cluster, name>>
    npass,            \* number of passes started
    nfailures,        \* number of exceptions that have left open or generate
    warned,           \* keys for which _prepare_file logged the warning
    writes,           \* <<cluster, name>> -> per row number of writes in this pass
    prevExit,         \* how the pass before the current one ended
    prevDisk,         \* disk when the current pass started
    prevMem,          \* memory store when the current pass started
    writeLog,         \* the row writes of this pass, in order : <<cluster, name, row>>
    \* the progress reporter
    progress_reporter, \* self.progress_reporter : None or a reporter
    reports,          \* the calls this pass made on the reporter, in order
    \* the session
    callbacks,        \* callbacks connected to the 'cluster' event, in order
    clustering,       \* the Clustering instance
    cluster_metadata, \* model.cluster_metadata : cluster -> group
    global_history,   \* the GlobalHistory instance
    \* observation of the last action
    lastOp,           \* name of the last Session action
    lastUp,           \* the record that action emitted with 'cluster'
    updateCalls,      \* the records cluster_store.update received in that action
    usedIds,          \* every cluster id a partition of the session has held
    cluster_store,    \* None until on_open has built self.cluster_store
    nactions,         \* number of merge, split, move, undo and redo calls
    \* the array helpers of _utils.py, applied to inputs of their own
    u_pc,             \* "in", or the helper that was applied
    u_sc,             \* a spike_clusters array
    u_data,           \* a per-spike array
    u_out,            \* the value the helper returned
    u_ups,            \* the records given to _process_ups
    u_ups_after       \* the same objects once _process_ups has returned

genVars == <<disk, mem, pc, spc, to_store, spikes, iteration, nameIdx, cursors,
             files, handles, npass, nfailures, warned, writes, prevExit, prevDisk,
             prevMem,
             writeLog, progress_reporter, reports>>
modelVars == <<spike_clusters, features_masks>>
sessVars == <<callbacks, clustering, cluster_metadata, global_history, lastOp,
              lastUp, updateCalls, usedIds, cluster_store, nactions>>
utilVars == <<u_pc, u_sc, u_data, u_out, u_ups, u_ups_after>>
\* what no action of the pass or of the session writes
constVars == <<modelVars, utilVars>>
vars == <<modelVars, genVars, sessVars, utilVars>>

\* ------------------------------------------------------------- sequences
RECURSIVE SortedSeq(_)
\* sorted(S) for a finite set of integers.
SortedSeq(S) ==
    IF S = {} THEN <<>>
    ELSE LET m == CHOOSE x \in S : \A y \in S : x <= y
         IN <<m>> \o SortedSeq(S \ {m})

Range(s) == {s[i] : i \in DOMAIN s}

RECURSIVE SumSeq(_)
SumSeq(s) == IF s = <<>> THEN 0 ELSE Head(s) + SumSeq(Tail(s))

Reverse(s) == [k \in 1 .. Len(s) |-> s[Len(s) + 1 - k]]

\* arr[idx] for a sequence idx of 0-based indices (numpy fancy indexing).
Take(arr, idx) == [k \in 1 .. Len(idx) |-> arr[idx[k] + 1]]

\* arr[a:b] with 0-based bounds.
Slice(arr, a, b) == SubSeq(arr, a + 1, b)

\* np.arange(n)
arange(n) == [k \in 1 .. n |-> k - 1]

\* mean_masks holds rationals <<numerator, denominator>> with denominator > 0.
RatLess(a, b) == a[1] * b[2] < b[1] * a[2]

\* np.argsort(x): the 0-based indices that sort x ascending. Equal elements keep
\* their order (every caller either sorts the groups again or has distinct keys).
argsort(x) ==
    LET idx == 0 .. (Len(x) - 1)
        Before(i, j) == x[i + 1] < x[j + 1] \/ (x[i + 1] = x[j + 1] /\ i < j)
        rank(i) == Cardinality({j \in idx : Before(j, i)})
    IN [k \in 1 .. Len(x) |-> CHOOSE i \in idx : rank(i) = k - 1]

\* np.argsort on an array of rationals.
argsort_rat(x) ==
    LET idx == 0 .. (Len(x) - 1)
        Before(i, j) == RatLess(x[i + 1], x[j + 1])
                        \/ (~RatLess(x[j + 1], x[i + 1]) /\ i < j)
        rank(i) == Cardinality({j \in idx : Before(j, i)})
    IN [k \in 1 .. Len(x) |-> CHOOSE i \in idx : rank(i) = k - 1]

\* np.sort(x)
sort(x) == Take(x, argsort(x))

\* np.nonzero(cond)[0] for a sequence of booleans: 0-based indices, ascending.
nonzero(cond) == SortedSeq({k - 1 : k \in {j \in DOMAIN cond : cond[j]}})

\* np.intersect1d(a, b): the sorted, unique values that are in both.
intersect1d(a, b) == SortedSeq(Range(a) \cap Range(b))

\* ---------------------------------------------------------------- _utils.py
\* The exceptions that leave the helpers.
IndexError == <<"IndexError">>
ValueError == <<"ValueError">>
NotImplementedError == <<"NotImplementedError">>

\* _spikes_in_clusters returning the spikes in descending order.
_spikes_in_clusters_desc(sc, clusters) ==
    IF Len(sc) = 0 \/ Len(clusters) = 0 THEN <<>>
    ELSE Reverse(nonzero([k \in 1 .. Len(sc) |-> sc[k] \in Range(clusters)]))

_spikes_in_clusters(sc, clusters) ==
    IF Len(sc) = 0 \/ Len(clusters) = 0 THEN <<>>
    ELSE nonzero([k \in 1 .. Len(sc) |-> sc[k] \in Range(clusters)])

\* _spikes_per_cluster that leaves the slices in the order of the argsort.
_spikes_per_cluster_unsorted(spike_ids, sc0) ==
    LET rel_spikes == argsort(sc0)
        abs_spikes == Take(spike_ids, rel_spikes)
        sc == Take(sc0, rel_spikes)
        idx == nonzero([k \in 1 .. Len(sc) |-> k = 1 \/ sc[k] - sc[k - 1] > 0])
        clusters == Take(sc, idx)
        n == Len(clusters)
        pos(c) == CHOOSE i \in 1 .. n : clusters[i] = c
    IN [c \in Range(clusters) |->
          IF pos(c) < n
          THEN Slice(abs_spikes, idx[pos(c)], idx[pos(c) + 1])
          ELSE Slice(abs_spikes, idx[n], Len(abs_spikes))]

\* _spikes_per_cluster whose last slice starts at the first spike.
_spikes_per_cluster_overlap(spike_ids, sc0) ==
    LET rel_spikes == argsort(sc0)
        abs_spikes == Take(spike_ids, rel_spikes)
        sc == Take(sc0, rel_spikes)
        idx == nonzero([k \in 1 .. Len(sc) |-> k = 1 \/ sc[k] - sc[k - 1] > 0])
        clusters == Take(sc, idx)
        n == Len(clusters)
        pos(c) == CHOOSE i \in 1 .. n : clusters[i] = c
    IN [c \in Range(clusters) |->
          IF pos(c) < n
          THEN sort(Slice(abs_spikes, idx[pos(c)], idx[pos(c) + 1]))
          ELSE sort(abs_spikes)]

\* spike_ids[rel_spikes] raises IndexError when spike_ids is the shorter array,
\* diff[0] = 1 raises it on an empty array.
_spikes_per_cluster(spike_ids, sc0) ==
    LET rel_spikes == argsort(sc0)
        abs_spikes == Take(spike_ids, rel_spikes)
        sc == Take(sc0, rel_spikes)
        diff == [k \in 1 .. Len(sc) |-> IF k = 1 THEN 1 ELSE sc[k] - sc[k - 1]]
        idx == nonzero([k \in 1 .. Len(diff) |-> diff[k] > 0])
        clusters == Take(sc, idx)
        n == Len(clusters)
        pos(c) == CHOOSE i \in 1 .. n : clusters[i] = c
    IN IF Len(spike_ids) < Len(sc0) THEN IndexError
       ELSE IF Len(sc0) = 0 THEN IndexError
       ELSE [c \in Range(clusters) |->
               IF pos(c) < n
               THEN sort(Slice(abs_spikes, idx[pos(c)], idx[pos(c) + 1]))
               ELSE sort(Slice(abs_spikes, idx[n], Len(abs_spikes)))]

RECURSIVE concatenate(_)
\* np.concatenate(list of arrays) along the first axis; an empty list raises
\* ValueError.
concatenate(arrs) ==
    IF Len(arrs) = 0 THEN ValueError
    ELSE IF Len(arrs) = 1 THEN arrs[1]
    ELSE Head(arrs) \o concatenate(Tail(arrs))

\* _flatten_spikes_per_cluster without the reordering by spike id.
_flatten_spikes_per_cluster_unordered(spikes_per_cluster) ==
    LET clusters == SortedSeq(DOMAIN spikes_per_cluster)
    IN concatenate([k \in DOMAIN clusters |->
                      [i \in 1 .. Len(spikes_per_cluster[clusters[k]]) |-> clusters[k]]])

_flatten_spikes_per_cluster(spikes_per_cluster) ==
    LET clusters == SortedSeq(DOMAIN spikes_per_cluster)
        clusters_arr == concatenate([k \in DOMAIN clusters |->
                           [i \in 1 .. Len(spikes_per_cluster[clusters[k]]) |->
                               clusters[k]]])
        spikes_arr == concatenate([k \in DOMAIN clusters |->
                                     spikes_per_cluster[clusters[k]]])
        ind == argsort(spikes_arr)
    IN IF Len(clusters) = 0 THEN ValueError ELSE Take(clusters_arr, ind)

\* A failed assert statement.
AssertionError == <<"AssertionError">>

\* _concatenate_per_cluster_arrays without the reordering by spike id.
_concatenate_per_cluster_arrays_unordered(spikes_per_cluster, arrays) ==
    LET clusters == SortedSeq(DOMAIN arrays)
    IN concatenate([k \in DOMAIN clusters |-> arrays[clusters[k]]])

_concatenate_per_cluster_arrays(spikes_per_cluster, arrays) ==
    LET clusters == SortedSeq(DOMAIN arrays)
        n_0 == [k \in DOMAIN clusters |-> Len(spikes_per_cluster[clusters[k]])]
        n_1 == [k \in DOMAIN clusters |-> Len(arrays[clusters[k]])]
        spikes_all == concatenate([k \in DOMAIN clusters |->
                                     spikes_per_cluster[clusters[k]]])
        idx == argsort(spikes_all)
        arrays_all == concatenate([k \in DOMAIN clusters |-> arrays[clusters[k]]])
    IN IF ~(DOMAIN arrays \subseteq DOMAIN spikes_per_cluster) THEN AssertionError
       ELSE IF n_0 # n_1 THEN AssertionError
       ELSE IF Len(clusters) = 0 THEN ValueError
       ELSE Take(arrays_all, idx)

\* ------------------------------------------------- disk and memory stores
\* disk_store.load(cluster, name) is not None
DiskHas(d, cluster, name) == <<cluster, name>> \in DOMAIN d

\* disk_store.load(cluster, name), for an entry that exists
DiskLoad(d, cluster, name) == d[<<cluster, name>>]

\* disk_store.store(cluster, **{name: arr})
DiskStore(d, cluster, name, arr) ==
    [k \in DOMAIN d \cup {<<cluster, name>>} |->
        IF k = <<cluster, name>> THEN arr ELSE d[k]]

\* np.zeros(shape): a 2-d or a 3-d array, as its shape and its rows.
ZeroRow(shape) ==
    IF Len(shape) = 2 THEN [c \in 1 .. shape[2] |-> 0]
    ELSE [c \in 1 .. shape[2] |-> [k \in 1 .. shape[3] |-> 0]]

\* A write of the row that also blanks the same row of the cluster's other field.
DiskWriteRow_both(d, cluster, name, i, data) ==
    [k \in DOMAIN d |->
        IF k = <<cluster, name>> THEN [d[k] EXCEPT !.rows[i + 1] = data]
        ELSE IF k[1] = cluster /\ (i + 1) \in DOMAIN d[k].rows
             THEN [d[k] EXCEPT !.rows[i + 1] = ZeroRow(d[k].shape)]
             ELSE d[k]]

\* arr[i, ...] = data on the array of an opened cluster file (i is 0-based)
DiskWriteRow(d, cluster, name, i, data) ==
    [d EXCEPT ![<<cluster, name>>].rows[i + 1] = data]

\* memory_store.store(cluster, **fields)
MemStore(m, cluster, fields) ==
    [k \in DOMAIN m \cup {cluster} |-> IF k = cluster THEN fields ELSE m[k]]

zeros(shape) == [shape |-> shape, rows |-> [i \in 1 .. shape[1] |-> ZeroRow(shape)]]

\* np.all(arr[i] == 0) for a row of an array of the given shape
RowAllZero(arr, i) == arr.rows[i] = ZeroRow(arr.shape)

\* ------------------------------------------------- session.py: FeatureMasks
\* _prepare_file that takes an existing entry as it is, whatever its shape.
_prepare_file_reuse(d, name, cluster, shape) ==
    IF DiskHas(d, cluster, name)
    THEN [disk |-> d, ret |-> FALSE, warn |-> FALSE]
    ELSE [disk |-> DiskStore(d, cluster, name, zeros(shape)),
          ret |-> TRUE, warn |-> FALSE]

\* _prepare_file that only warns when the zero-probe fires: the entry is kept
\* and not marked.
_prepare_file_keep(d, name, cluster, shape) ==
    LET right == DiskHas(d, cluster, name)
                 /\ DiskLoad(d, cluster, name).shape = shape
        arr == DiskLoad(d, cluster, name)
        empty == right /\ RowAllZero(arr, 1) /\ RowAllZero(arr, Len(arr.rows))
    IN IF right
       THEN [disk |-> d, ret |-> FALSE, warn |-> empty]
       ELSE [disk |-> DiskStore(d, cluster, name, zeros(shape)),
             ret |-> TRUE, warn |-> FALSE]

\* _prepare_file that blanks the entry when the zero-probe fires but reports
\* that nothing needs to be written.
_prepare_file_blank(d, name, cluster, shape) ==
    LET right == DiskHas(d, cluster, name)
                 /\ DiskLoad(d, cluster, name).shape = shape
        arr == DiskLoad(d, cluster, name)
        empty == right /\ RowAllZero(arr, 1) /\ RowAllZero(arr, Len(arr.rows))
    IN IF right /\ ~empty
       THEN [disk |-> d, ret |-> FALSE, warn |-> FALSE]
       ELSE [disk |-> DiskStore(d, cluster, name, zeros(shape)),
             ret |-> ~right, warn |-> empty]

\* FeatureMasks._prepare_file: the store after the call, the returned flag, and
\* whether the warning was logged.
_prepare_file(d, name, cluster, shape) ==
    LET right == DiskHas(d, cluster, name)
                 /\ DiskLoad(d, cluster, name).shape = shape
        arr == DiskLoad(d, cluster, name)
        empty == right /\ RowAllZero(arr, 1) /\ RowAllZero(arr, Len(arr.rows))
    IN IF right /\ ~empty
       THEN [disk |-> d, ret |-> FALSE, warn |-> FALSE]
       ELSE [disk |-> DiskStore(d, cluster, name, zeros(shape)),
             ret |-> TRUE, warn |-> empty]

\* _shape[name] of _clusters_to_store
_shape(name, n_spikes) ==
    IF name = "masks" THEN <<n_spikes, n_channels>>
    ELSE <<n_spikes, n_channels, n_features>>

RECURSIVE ClustersToStoreLoop(_, _, _)
\* The loop of _clusters_to_store over sorted(sizes.items()); acc holds the
\* store, to_store and the keys warned about so far.
ClustersToStoreLoop(acc, todo, sizes) ==
    IF todo = <<>> THEN acc
    ELSE LET cluster == Head(todo)
             m == _prepare_file(acc.disk, "masks", cluster,
                                _shape("masks", sizes[cluster]))
             f == _prepare_file(m.disk, "features", cluster,
                                _shape("features", sizes[cluster]))
             ts == [masks |-> m.ret, features |-> f.ret]
         IN ClustersToStoreLoop(
                [disk |-> f.disk,
                 to_store |-> [c \in DOMAIN acc.to_store \cup {cluster} |->
                                 IF c = cluster THEN ts ELSE acc.to_store[c]],
                 warned |-> acc.warned
                            \cup (IF m.warn THEN {<<cluster, "masks">>} ELSE {})
                            \cup (IF f.warn THEN {<<cluster, "features">>} ELSE {})],
                Tail(todo), sizes)

_clusters_to_store(d, spikes_per_cluster) ==
    LET sizes == [c \in DOMAIN spikes_per_cluster |-> Len(spikes_per_cluster[c])]
    IN ClustersToStoreLoop([disk |-> d, to_store |-> <<>>, warned |-> {}],
                           SortedSeq(DOMAIN sizes), sizes)

\* _clusters_to_store left by an exception when k calls of _prepare_file have
\* returned: the store raises in the next call, at its load, or at its store
\* once the warning of that call is logged.
_clusters_to_store_raised(d, spikes_per_cluster, k, at_store) ==
    LET sizes == [c \in DOMAIN spikes_per_cluster |-> Len(spikes_per_cluster[c])]
        clusters == SortedSeq(DOMAIN sizes)
        whole == ClustersToStoreLoop([disk |-> d, to_store |-> <<>>, warned |-> {}],
                                     SubSeq(clusters, 1, k \div 2), sizes)
        cluster == clusters[(k \div 2) + 1]
        m == _prepare_file(whole.disk, "masks", cluster,
                           _shape("masks", sizes[cluster]))
        done == IF k % 2 = 0 THEN [disk |-> whole.disk, warned |-> whole.warned]
                ELSE [disk |-> m.disk,
                      warned |-> whole.warned
                                 \cup (IF m.warn THEN {<<cluster, "masks">>} ELSE {})]
        name == IF k % 2 = 0 THEN "masks" ELSE "features"
        next == _prepare_file(done.disk, name, cluster, _shape(name, sizes[cluster]))
    IN [disk |-> done.disk,
        warned |-> done.warned
                   \cup (IF at_store /\ next.warn THEN {<<cluster, name>>} ELSE {})]

\* model.probe.positions: one (x, y) per channel, a linear probe.
probe_positions == [c \in Channels |-> <<0, 10 * c>>]

\* FeatureMasks._store_extra_fields: the fields given to memory_store.store.
\* Channels are 0-based in the index arrays; means are <<numerator, denominator>>.
_store_extra_fields(features, masks) ==
    LET n == masks.shape[1]
        sum_masks == [c \in 1 .. masks.shape[2] |->
                        SumSeq([i \in 1 .. n |-> masks.rows[i][c]])]
        mean_masks == [c \in DOMAIN sum_masks |-> <<sum_masks[c], n>>]
        unmasked_channels ==
            nonzero([c \in DOMAIN mean_masks |->
                        mean_masks[c][1] * ThresholdDen > mean_masks[c][2]])
        mean_probe_position ==
            [x \in 1 .. 2 |->
                <<SumSeq([c \in DOMAIN mean_masks |->
                            probe_positions[c][x] * mean_masks[c][1]]),
                  n * Len(mean_masks)>>]
        main_channels ==
            intersect1d(Reverse(argsort_rat(mean_masks)), unmasked_channels)
    IN [mean_masks |-> mean_masks,
        sum_masks |-> sum_masks,
        n_unmasked_channels |-> Len(unmasked_channels),
        mean_probe_position |-> mean_probe_position,
        main_channels |-> main_channels]

\* _data(name, spike) of store_all_clusters.
_data(fm, name, spike) ==
    IF name = "features"
    THEN [c \in Channels |->
            [k \in 1 .. n_features |-> fm[spike + 1][(c - 1) * n_features + k][1]]]
    ELSE [c \in Channels |-> fm[spike + 1][(c - 1) * n_features + 1][2]]

\* clusters of store_all_clusters: those to store for either field.
ClustersNeeded(ts) ==
    SortedSeq({c \in DOMAIN ts : ts[c]["masks"] \/ ts[c]["features"]})

RECURSIVE ExtraLoop(_, _, _)
\* "Store all extra fields": the loop over sorted(spikes_per_cluster).
ExtraLoop(m, d, todo) ==
    IF todo = <<>> THEN m
    ELSE ExtraLoop(MemStore(m, Head(todo),
                            _store_extra_fields(DiskLoad(d, Head(todo), "features"),
                                                DiskLoad(d, Head(todo), "masks"))),
                   d, Tail(todo))

\* ------------------------------------------------------------ source model
\* Rows of model.features_masks: per flat index <<feature, mask>>.
\*   "A": features 1, the first channel masked
\*   "B": features 0, no channel masked
Patterns == {"A", "B"}

PatternRow(p) ==
    [j \in 1 .. (n_channels * n_features) |->
        LET ch == ((j - 1) \div n_features) + 1
        IN IF p = "A" THEN <<1, IF ch = 1 THEN 0 ELSE 1>> ELSE <<0, 1>>]

\* The rows a complete pass stores for a cluster: one per spike, ascending.
ExpectedRows(fm, spike_ids, name) ==
    [i \in 1 .. Len(spike_ids) |-> _data(fm, name, spike_ids[i])]

\* ------------------------------------------------ _utils.py: update_info
None == "None"

\* update_info(**kwargs): the defaults, updated with the keyword arguments.
update_info(kwargs) ==
    LET d == [description |-> None,
              history |-> None,
              spikes |-> <<>>,
              added |-> <<>>,
              deleted |-> <<>>,
              descendants |-> <<>>,
              metadata_changed |-> <<>>,
              metadata_value |-> None,
              old_spikes_per_cluster |-> <<>>,
              new_spikes_per_cluster |-> <<>>]
    IN [k \in DOMAIN d \cup DOMAIN kwargs |->
          IF k \in DOMAIN kwargs THEN kwargs[k] ELSE d[k]]

\* ------------------------------------------------------------- Clustering
\* The partition engine (clustering.py) as the specification describes it.
Restrict(f, S) == [k \in S \cap DOMAIN f |-> f[k]]

\* Pairs (old, new) of a relabelling, ordered by old then new.
Descendants(old_sc, new_sc) ==
    LET pairs == {<<old_sc[k], new_sc[k]>> : k \in {j \in DOMAIN old_sc :
                                                       old_sc[j] # new_sc[j]}}
        code(p) == p[1] * (MaxCluster + 2) + p[2]
        codes == SortedSeq({code(p) : p \in pairs})
    IN [k \in DOMAIN codes |-> CHOOSE p \in pairs : code(p) = codes[k]]

\* The record of the change from old_sc to new_sc.
ClusteringUp(old_sc, new_sc, description, history) ==
    LET added == Range(new_sc) \ Range(old_sc)
        deleted == Range(old_sc) \ Range(new_sc)
    IN update_info(
        [description |-> description,
         history |-> history,
         spikes |-> nonzero([k \in DOMAIN old_sc |-> old_sc[k] # new_sc[k]]),
         added |-> SortedSeq(added),
         deleted |-> SortedSeq(deleted),
         descendants |-> Descendants(old_sc, new_sc),
         old_spikes_per_cluster |->
             Restrict(_spikes_per_cluster(arange(Len(old_sc)), old_sc), deleted),
         new_spikes_per_cluster |->
             Restrict(_spikes_per_cluster(arange(Len(new_sc)), new_sc), added)])

\* Clustering(spike_clusters)
NewClustering(sc) ==
    [spike_clusters |-> sc,
     base |-> sc,
     new_cluster_id |-> (CHOOSE m \in Range(sc) : \A c \in Range(sc) : c <= m) + 1,
     stack |-> <<>>,
     pos |-> 0]

\* clustering.spikes_per_cluster
SpikesPerCluster(cl) ==
    _spikes_per_cluster(arange(Len(cl.spike_clusters)), cl.spike_clusters)

\* A mutation of the clustering to new_sc using ids below next: the new
\* state is pushed on the undo stack, the redo tail is dropped.
Mutate(cl, new_sc, next, description) ==
    [cl |-> [cl EXCEPT !.spike_clusters = new_sc,
                       !.new_cluster_id = next,
                       !.stack = Append(SubSeq(cl.stack, 1, cl.pos), new_sc),
                       !.pos = cl.pos + 1],
     up |-> ClusteringUp(cl.spike_clusters, new_sc, description, None)]

\* Clustering.merge(clusters): every spike of the clusters moves to one new id.
Clustering_merge(cl, clusters) ==
    Mutate(cl,
           [k \in DOMAIN cl.spike_clusters |->
               IF cl.spike_clusters[k] \in clusters THEN cl.new_cluster_id
               ELSE cl.spike_clusters[k]],
           cl.new_cluster_id + 1, "merge")

RECURSIVE SplitLoop(_, _, _, _)
\* Clustering.split: for each touched cluster in ascending order, the selected
\* spikes take a fresh id and, when some spikes remain, the remainder another.
SplitLoop(sc, next, touched, sel) ==
    IF touched = <<>> THEN [sc |-> sc, next |-> next]
    ELSE LET c == Head(touched)
             all == \A k \in DOMAIN sc : sc[k] = c => (k - 1) \in sel
             new_sc == [k \in DOMAIN sc |->
                          IF sc[k] # c THEN sc[k]
                          ELSE IF (k - 1) \in sel THEN next ELSE next + 1]
         IN SplitLoop(new_sc, IF all THEN next + 1 ELSE next + 2, Tail(touched), sel)

SplitResult(cl, sel) ==
    SplitLoop(cl.spike_clusters, cl.new_cluster_id,
              SortedSeq({cl.spike_clusters[s + 1] : s \in sel}), sel)

Clustering_split(cl, sel) ==
    LET r == SplitResult(cl, sel)
    IN Mutate(cl, r.sc, r.next, "assign")

\* Clustering.undo() and Clustering.redo()
\* The first id above the ids of the assignment sc.
NextIdAbove(sc) == (CHOOSE m \in Range(sc) : \A c \in Range(sc) : c <= m) + 1

\* An undo that goes back to the initial assignment.
Clustering_undo_base(cl, rolled_back) ==
    [cl |-> [cl EXCEPT !.spike_clusters = cl.base, !.pos = cl.pos - 1],
     up |-> ClusteringUp(cl.spike_clusters, cl.base, "assign", "undo")]

\* Clustering.undo(). What becomes of the id counter is given twice: ids are
\* never reused, even after deletion and undo (the counter is kept), and, in
\* the scenario of the merge that is undone, the counter is rolled back so
\* that the next new id is the undone one again. rolled_back tells which of
\* the two the undo does.
Clustering_undo(cl, rolled_back) ==
    LET target == IF cl.pos = 1 THEN cl.base ELSE cl.stack[cl.pos - 1]
    IN [cl |-> [cl EXCEPT !.spike_clusters = target, !.pos = cl.pos - 1,
                          !.new_cluster_id = IF rolled_back THEN NextIdAbove(target)
                                             ELSE @],
        up |-> ClusteringUp(cl.spike_clusters, target, "assign", "undo")]

\* Clustering.redo(): the counter is again above the ids of the assignment
\* that comes back.
Clustering_redo(cl) ==
    LET target == cl.stack[cl.pos + 1]
    IN [cl |-> [cl EXCEPT !.spike_clusters = target, !.pos = cl.pos + 1,
                          !.new_cluster_id = IF @ < NextIdAbove(target)
                                             THEN NextIdAbove(target) ELSE @],
        up |-> ClusteringUp(cl.spike_clusters, target, "assign", "redo")]

\* cluster_metadata.set_group(clusters, group)
Groups == {"good"}

Metadata_set_group(md, clusters, group) ==
    [md |-> [c \in DOMAIN md \cup Range(clusters) |->
               IF c \in Range(clusters) THEN group ELSE md[c]],
     up |-> update_info([description |-> "metadata_group",
                         metadata_changed |-> clusters,
                         metadata_value |-> group])]

\* ---------------------------------------------------------- GlobalHistory
\* GlobalHistory(process_ups=_process_ups)
NewGlobalHistory == [stack |-> <<>>, pos |-> 0]

\* global_history.action(*controllers)
GlobalHistory_action(gh, controllers) ==
    [stack |-> Append(SubSeq(gh.stack, 1, gh.pos), controllers), pos |-> gh.pos + 1]

\* _update_cluster_selection appending every added cluster, selected or not.
_update_cluster_selection_append(clusters, up) ==
    LET NotDeleted(clu) == \A i \in DOMAIN up.deleted : up.deleted[i] # clu
    IN SelectSeq(clusters, NotDeleted) \o up.added

\* The selection after an action: the deleted clusters are removed, the added
\* clusters that the remaining selection does not hold are put at the end.
_update_cluster_selection(clusters, up) ==
    LET NotDeleted(clu) == \A i \in DOMAIN up.deleted : up.deleted[i] # clu
        remaining == SelectSeq(clusters, NotDeleted)
        NotRemaining(clu) == \A i \in DOMAIN remaining : remaining[i] # clu
    IN remaining \o SelectSeq(up.added, NotRemaining)

\* session.py: _process_ups. up.update(ups[1]) writes every key of ups[1]
\* into ups[0]; more than two records raise NotImplementedError.
_process_ups(ups) ==
    IF Len(ups) = 0 THEN None
    ELSE IF Len(ups) = 1 THEN ups[1]
    ELSE IF Len(ups) = 2
    THEN [k \in DOMAIN ups[1] \cup DOMAIN ups[2] |->
            IF k \in DOMAIN ups[2] THEN ups[2][k] ELSE ups[1][k]]
    ELSE NotImplementedError

\* The objects of the list ups once _process_ups(ups) has returned: with two
\* records, up is ups[0] itself and up.update(ups[1]) writes into it.
_process_ups_args(ups) ==
    IF Len(ups) = 2 THEN <<_process_ups(ups), ups[2]>> ELSE ups

\* ----------------------------------------------- session.py: cluster store
\* A merge that blanks every entry of the disk store for a later regeneration.
FeatureMasks_merge_blank(store, up) ==
    [store EXCEPT !.disk = [k \in DOMAIN store.disk |-> zeros(store.disk[k].shape)]]

\* FeatureMasks.merge(up) and FeatureMasks.assign(up): the store afterwards.
FeatureMasks_merge(store, up) == store

FeatureMasks_assign(store, up) == store

\* ClusterStore.update(up): the registered item handles the record.
ClusterStore_update(store, up) ==
    IF up.description = "merge" THEN FeatureMasks_merge(store, up)
    ELSE IF up.description = "assign" THEN FeatureMasks_assign(store, up)
    ELSE store

\* An on_cluster that records the action whatever add_to_stack is.
Session_on_cluster_always(gh, add_to_stack) ==
    GlobalHistory_action(gh, <<"clustering">>)

\* Session.on_cluster (lines 414-418)
Session_on_cluster(gh, add_to_stack) ==
    IF add_to_stack THEN GlobalHistory_action(gh, <<"clustering">>) ELSE gh

RECURSIVE EmitLoop(_, _, _, _)
\* self.emit('cluster', up=up, add_to_stack=...): every connected callback runs,
\* in the order of connection. st holds the global history, the store and the
\* records given to cluster_store.update. The callback of a view gives the
\* record to its view model, which holds none of this state.
EmitLoop(st, cbs, up, add_to_stack) ==
    IF cbs = <<>> THEN st
    ELSE IF Head(cbs) = "Session.on_cluster"
    THEN EmitLoop([st EXCEPT !.gh = Session_on_cluster(st.gh, add_to_stack)],
                  Tail(cbs), up, add_to_stack)
    ELSE IF Head(cbs) = "_show_view.on_cluster"
    THEN EmitLoop(st, Tail(cbs), up, add_to_stack)
    ELSE EmitLoop([st EXCEPT !.store = ClusterStore_update(st.store, up),
                             !.calls = Append(st.calls, up)],
                  Tail(cbs), up, add_to_stack)

\* Before on_open has run the session holds no clustering.
NoClustering == NewClustering(<<0>>)

\* ------------------------------------------------- store_all_clusters pass
Running == pc \in {"loop", "extra", "close"}

\* Lines 173-224: _clusters_to_store and the set-up of the loop, for the
\* mapping given by ClusterStore.generate to a store item whose reporter is pr.
StartPass(spikes_per_cluster, pr) ==
    LET prep == _clusters_to_store(disk, spikes_per_cluster)
        todo == _spikes_in_clusters(spike_clusters, ClustersNeeded(prep.to_store))
    IN /\ spc' = spikes_per_cluster
       /\ disk' = prep.disk
       /\ to_store' = prep.to_store
       /\ warned' = prep.warned
       /\ spikes' = todo
       /\ iteration' = 0
       /\ nameIdx' = 1
       /\ files' = {}
       /\ cursors' = [k \in (DOMAIN prep.to_store) \X NameSet |-> 0]
       /\ writes' = [k \in (DOMAIN prep.to_store) \X NameSet |->
                       [i \in 1 .. Len(spikes_per_cluster[k[1]]) |-> 0]]
       /\ pc' = IF todo = <<>> THEN "extra" ELSE "loop"
       /\ npass' = npass + 1
       /\ UNCHANGED nfailures
       /\ prevExit' = pc
       /\ prevDisk' = disk
       /\ prevMem' = mem
       /\ writeLog' = <<>>
       /\ reports' = IF pr # None
                     THEN <<<<"set_max", Len(todo), Cardinality(DOMAIN spikes_per_cluster)>>>>
                     ELSE <<>>
       /\ progress_reporter' = pr
       /\ UNCHANGED handles

\* Lines 234-242: the row of the current spike for the current name is stored
\* when the field of the cluster is marked.
StoreRow ==
    LET spike == spikes[iteration + 1]
        cluster == spike_clusters[spike + 1]
        name == names[nameIdx]
        key == <<cluster, name>>
        i == cursors[key]
    IN IF to_store[cluster][name]
       THEN /\ disk' = DiskWriteRow(disk, cluster, name, i,
                                    _data(features_masks, name, spike))
            /\ files' = files \cup {key}
            /\ handles' = IF key \in files THEN handles
                          ELSE handles \cup {<<npass, cluster, name>>}
            /\ cursors' = [cursors EXCEPT ![key] = i + 1]
            /\ writes' = [writes EXCEPT ![key][i + 1] = @ + 1]
            /\ writeLog' = Append(writeLog, <<cluster, name, i>>)
       ELSE UNCHANGED <<disk, files, handles, cursors, writes, writeLog>>

\* An exception is raised before the loop of a pass starts: no local variable
\* of a pass is left.
NoLoop(spikes_per_cluster, pr) ==
    /\ pc' = "failed"
    /\ spc' = spikes_per_cluster
    /\ to_store' = <<>>
    /\ spikes' = <<>>
    /\ iteration' = 0
    /\ nameIdx' = 1
    /\ files' = {}
    /\ cursors' = <<>>
    /\ writes' = <<>>
    /\ prevExit' = pc
    /\ prevDisk' = disk
    /\ prevMem' = mem
    /\ writeLog' = <<>>
    /\ reports' = <<>>
    /\ progress_reporter' = pr
    /\ nfailures < MaxFailures
    /\ nfailures' = nfailures + 1
    /\ UNCHANGED <<handles, npass>>

\* Lines 173-198: an exception leaves store_all_clusters during the set-up.
\* The store raises inside _clusters_to_store when k calls of _prepare_file
\* have returned, or the reporter pr raises in set_max once every entry is
\* prepared. No loop starts, the local variables are lost.
SetupFails(spikes_per_cluster, pr) ==
    /\ \E r \in {_clusters_to_store_raised(disk, spikes_per_cluster, k, at_store) :
                    k \in 0 .. (2 * Cardinality(DOMAIN spikes_per_cluster) - 1),
                    at_store \in BOOLEAN}
                 \cup (IF pr # None
                       THEN {[x \in {"disk", "warned"} |->
                                _clusters_to_store(disk, spikes_per_cluster)[x]]}
                       ELSE {}) :
          /\ disk' = r.disk
          /\ warned' = r.warned
    /\ NoLoop(spikes_per_cluster, pr)

\* Lines 227-247: the body of the loop for one spike and one name.
LoopStep ==
    /\ pc = "loop"
    /\ StoreRow
    /\ IF nameIdx < Len(names)
       THEN /\ nameIdx' = nameIdx + 1
            /\ UNCHANGED <<iteration, pc, reports>>
       ELSE /\ nameIdx' = 1
            /\ reports' = IF progress_reporter # None /\ iteration % ReportEvery = 0
                          THEN Append(reports, <<"increment", "features_masks",
                                                 ReportEvery>>)
                          ELSE reports
            /\ iteration' = iteration + 1
            /\ pc' = IF iteration + 1 < Len(spikes) THEN "loop" ELSE "extra"
    /\ UNCHANGED <<mem, spc, to_store, spikes, npass, nfailures, warned, prevExit,
                   prevDisk, prevMem, progress_reporter>>
    /\ UNCHANGED <<constVars, sessVars>>

\* An aggregation pass that computes the fields only under a reporter.
Extra_reported ==
    /\ pc = "extra"
    /\ mem' = IF progress_reporter # None
              THEN ExtraLoop(mem, disk, SortedSeq(DOMAIN spc)) ELSE mem
    /\ reports' = reports
    /\ pc' = "close"
    /\ UNCHANGED <<disk, spc, to_store, spikes, iteration, nameIdx, cursors, files,
                   handles, npass, nfailures, warned, writes, prevExit, prevDisk, prevMem,
                   writeLog, progress_reporter>>
    /\ UNCHANGED <<constVars, sessVars>>

\* Lines 250-257: the aggregation pass.
Extra ==
    /\ pc = "extra"
    /\ mem' = ExtraLoop(mem, disk, SortedSeq(DOMAIN spc))
    /\ reports' = IF progress_reporter # None
                  THEN reports \o [k \in 1 .. Cardinality(DOMAIN spc) |->
                                     <<"increment", "masks_extra", 1>>]
                  ELSE reports
    /\ pc' = "close"
    /\ UNCHANGED <<disk, spc, to_store, spikes, iteration, nameIdx, cursors, files,
                   handles, npass, nfailures, warned, writes, prevExit, prevDisk, prevMem,
                   writeLog, progress_reporter>>
    /\ UNCHANGED <<constVars, sessVars>>

\* Lines 260-264: close the opened files, drop the cursors. generate returns
\* and, when on_open called it, on_open connects its on_cluster callback
\* (lines 410-412).
Close ==
    /\ pc = "close"
    /\ handles' = handles \ {<<npass, k[1], k[2]>> : k \in files}
    /\ files' = {}
    /\ cursors' = <<>>
    /\ pc' = "done"
    /\ callbacks' = IF lastOp = "open" THEN Append(callbacks, "on_open.on_cluster")
                    ELSE callbacks
    /\ UNCHANGED <<disk, mem, spc, to_store, spikes, iteration, nameIdx, npass, nfailures,
                   warned, writes, prevExit, prevDisk, prevMem, writeLog,
                   progress_reporter, reports>>
    /\ UNCHANGED <<clustering, cluster_metadata, global_history, lastOp, lastUp,
                   updateCalls, usedIds, cluster_store, nactions>>
    /\ UNCHANGED constVars

\* Session.open on a fresh process or again on the same session:
\* on_open builds the clustering from model.spike_clusters, a progress
\* reporter and a new cluster store on the directory of the dataset (its
\* memory store is empty), and calls
\* cluster_store.generate(clustering.spikes_per_cluster).
\* open can be called again at any time the session is not inside a pass:
\* after actions, and after a pass that an exception has left.
Open ==
    /\ pc \in {"idle", "done", "failed", "killed", "ended"}
    /\ npass < MaxPasses
    /\ global_history' = NewGlobalHistory
    /\ clustering' = NewClustering(spike_clusters)
    /\ mem' = <<>>
    /\ cluster_store' = "ClusterStore"
    /\ \E spikes_per_cluster \in {SpikesPerCluster(NewClustering(spike_clusters))} :
           StartPass(spikes_per_cluster, "pr")
    /\ lastOp' = "open"
    /\ lastUp' = update_info(<<>>)
    /\ updateCalls' = <<>>
    /\ usedIds' = Range(spike_clusters)
    /\ UNCHANGED <<callbacks, cluster_metadata, nactions>>
    /\ UNCHANGED constVars

\* Session.open that raises before the loop of the pass: the exception leaves
\* on_open before its on_cluster is connected. Either generate raises during
\* its set-up, in the new store, or _ensure_disk_store_exists raises
\* RuntimeError at line 400 because the root directory of the store is missing
\* (lines 287-289): the clustering and the history are new, self.cluster_store
\* and its memory store are those of the open before.
OpenFails ==
    /\ pc \in {"idle", "done", "failed", "killed", "ended"}
    /\ npass < MaxPasses
    /\ global_history' = NewGlobalHistory
    /\ clustering' = NewClustering(spike_clusters)
    /\ \E spikes_per_cluster \in {SpikesPerCluster(NewClustering(spike_clusters))} :
           \/ /\ mem' = <<>>
              /\ cluster_store' = "ClusterStore"
              /\ SetupFails(spikes_per_cluster, "pr")
           \/ /\ NoLoop(spikes_per_cluster, "pr")
              /\ UNCHANGED <<mem, cluster_store, disk, warned>>
    /\ lastOp' = "open"
    /\ lastUp' = update_info(<<>>)
    /\ updateCalls' = <<>>
    /\ usedIds' = Range(spike_clusters)
    /\ UNCHANGED <<callbacks, cluster_metadata, nactions>>
    /\ UNCHANGED constVars

\* store_all_clusters on a store item used without a session raises during
\* its set-up.
GenerateFails ==
    /\ pc \in {"idle", "done", "failed", "killed", "ended"}
    /\ npass < MaxPasses
    /\ lastOp = "none"
    /\ \E spikes_per_cluster \in
            {_spikes_per_cluster(arange(Len(spike_clusters)), spike_clusters)} :
           SetupFails(spikes_per_cluster, progress_reporter)
    /\ UNCHANGED <<mem, sessVars, constVars>>

\* store_all_clusters on a store item used without a session: the item keeps
\* the reporter it was built with, None or a reporter, and its store.
Generate ==
    /\ pc \in {"idle", "done", "failed", "killed", "ended"}
    /\ npass < MaxPasses
    /\ lastOp = "none"
    /\ \E spikes_per_cluster \in
            {_spikes_per_cluster(arange(Len(spike_clusters)), spike_clusters)} :
           StartPass(spikes_per_cluster, progress_reporter)
    /\ UNCHANGED <<mem, sessVars, constVars>>

\* files[name] at the end of the pass (line 261): the files of the field name
\* that the pass has opened.
FilesOf(name) == {k \in files : k[2] = name}

\* A failure raised by the store inside the loop or the aggregation pass: the
\* exception leaves store_all_clusters, nothing after the raise runs.
\* In the loop the exception is raised before _arr is called, or by the write
\* of the row once _arr has opened the cluster file (lines 238-242), or by the
\* reporter at the end of an iteration, once the rows of the spike are stored
\* (lines 245-247). In the
\* aggregation pass it is raised when k clusters are done: by the load or the
\* computation of the next cluster, or by the reporter once the fields of the
\* next cluster are stored (lines 250-257). In the loop that closes the files
\* it is raised by the close of a file of the field names[j] (lines 259-262):
\* the files of the fields before it are closed, and so are the files of the
\* field that came before it in files[name].items(), whose order is the one
\* of the dict (of the hashes or of the insertions, as the interpreter has
\* it); the file whose close raised is released or not. The other files stay
\* open and the cursors are not deleted.
Fail ==
    /\ pc \in {"loop", "extra"} \/ (pc = "close" /\ files # {})
    /\ nfailures < MaxFailures
    /\ nfailures' = nfailures + 1
    /\ pc' = "failed"
    /\ IF pc = "close"
       THEN /\ \E j \in DOMAIN names :
                  /\ FilesOf(names[j]) # {}
                  /\ \E closed \in SUBSET FilesOf(names[j]) :
                        handles' = handles \ {<<npass, k[1], k[2]>> :
                                      k \in closed \cup UNION {FilesOf(names[i]) :
                                                                i \in 1 .. (j - 1)}}
            /\ UNCHANGED <<files, disk, cursors, writes, writeLog, mem, reports>>
       ELSE IF pc = "loop"
       THEN LET spike == spikes[iteration + 1]
                cluster == spike_clusters[spike + 1]
                name == names[nameIdx]
                key == <<cluster, name>>
            IN /\ \E at \in {"before", "write", "increment"} :
                     IF at = "increment"
                     THEN /\ nameIdx = Len(names)
                          /\ progress_reporter # None
                          /\ iteration % ReportEvery = 0
                          /\ StoreRow
                     ELSE /\ IF at = "write" /\ to_store[cluster][name]
                             THEN /\ files' = files \cup {key}
                                  /\ handles' = IF key \in files THEN handles
                                                ELSE handles
                                                     \cup {<<npass, cluster, name>>}
                             ELSE UNCHANGED <<files, handles>>
                          /\ UNCHANGED <<disk, cursors, writes, writeLog>>
               /\ UNCHANGED <<mem, reports>>
       ELSE LET clusters == SortedSeq(DOMAIN spc)
            IN /\ \E k \in 0 .. (Len(clusters) - 1), stored \in BOOLEAN :
                     /\ stored => progress_reporter # None
                     /\ mem' = ExtraLoop(mem, disk,
                                         SubSeq(clusters, 1, IF stored THEN k + 1 ELSE k))
                     /\ reports' = IF progress_reporter # None
                                   THEN reports \o [j \in 1 .. k |->
                                                      <<"increment", "masks_extra", 1>>]
                                   ELSE reports
               /\ UNCHANGED <<files, handles, disk, cursors, writes, writeLog>>
    /\ UNCHANGED <<spc, to_store, spikes, iteration, nameIdx,
                   npass, warned, prevExit, prevDisk,
                   prevMem, progress_reporter>>
    /\ UNCHANGED <<constVars, sessVars>>

\* The process is terminated during the pass: the disk store keeps what was
\* written, everything held in memory is lost.
Interrupt ==
    /\ pc \in {"loop", "extra"}
    /\ pc' = IF pc = "loop" THEN "killed" ELSE "ended"
    /\ mem' = <<>>
    /\ files' = {}
    /\ handles' = {}
    /\ callbacks' = <<"Session.on_cluster">>
    /\ clustering' = NoClustering
    /\ cluster_metadata' = <<>>
    /\ global_history' = NewGlobalHistory
    /\ lastOp' = "none"
    /\ lastUp' = update_info(<<>>)
    /\ updateCalls' = <<>>
    /\ usedIds' = {}
    /\ cluster_store' = None
    /\ UNCHANGED nactions
    /\ reports' = <<>>
    /\ UNCHANGED <<disk, spc, to_store, spikes, iteration, nameIdx, cursors, npass, nfailures,
                   warned, writes, prevExit, prevDisk, prevMem, writeLog,
                   progress_reporter>>
    /\ UNCHANGED constVars

\* Session.__init__ (lines 325-340): nothing is open, on_cluster is connected.
InitSession ==
    /\ callbacks = <<"Session.on_cluster">>
    /\ clustering = NoClustering
    /\ cluster_metadata = <<>>
    /\ global_history = NewGlobalHistory
    /\ lastOp = "none"
    /\ lastUp = update_info(<<>>)
    /\ updateCalls = <<>>
    /\ usedIds = {}
    /\ cluster_store = None
    /\ nactions = 0

InitUtils ==
    /\ u_pc = "in"
    /\ u_sc = <<>>
    /\ u_data = <<>>
    /\ u_out = <<>>
    /\ u_ups = <<>>
    /\ u_ups_after = <<>>

InitStore ==
    /\ disk = <<>>
    /\ mem = <<>>
    /\ pc = "idle"
    /\ spc = <<>>
    /\ to_store = <<>>
    /\ spikes = <<>>
    /\ iteration = 0
    /\ nameIdx = 1
    /\ cursors = <<>>
    /\ files = {}
    /\ handles = {}
    /\ npass = 0
    /\ nfailures = 0
    /\ warned = {}
    /\ writes = <<>>
    /\ prevExit = "idle"
    /\ prevDisk = <<>>
    /\ prevMem = <<>>
    /\ writeLog = <<>>
    /\ reports = <<>>

InitGen ==
    /\ spike_clusters \in [1 .. NSpikes -> 0 .. MaxInitCluster]
    /\ features_masks \in [1 .. NSpikes -> {PatternRow(p) : p \in Patterns}]
    /\ progress_reporter = "pr"
    /\ InitStore
    /\ InitSession
    /\ InitUtils

NextGen == Open \/ OpenFails \/ LoopStep \/ Extra \/ Close \/ Fail \/ Interrupt

SpecGen == InitGen /\ [][NextGen]_vars

\* Session.open(model=...) on a new session is given the dataset with another
\* spike_clusters array; the store of the dataset is the one of the last session.
\* The model follows one such change, after the first session.
NewModel ==
    /\ pc = "done"
    /\ prevExit = "idle"
    /\ npass < MaxPasses
    /\ lastOp \in {"none", "open"}
    /\ \E sc \in [1 .. NSpikes -> 0 .. MaxInitCluster] :
          /\ sc # spike_clusters
          /\ spike_clusters' = sc
    /\ UNCHANGED <<features_masks, utilVars, genVars, sessVars>>

\* Complete passes over a dataset whose assignment changes between sessions.
NextModels == Open \/ LoopStep \/ Extra \/ Close \/ NewModel

InitModels ==
    /\ spike_clusters \in [1 .. NSpikes -> 0 .. MaxInitCluster]
    /\ features_masks = [s \in 1 .. NSpikes |->
                            PatternRow(IF s % 2 = 1 THEN "A" ELSE "B")]
    /\ progress_reporter = "pr"
    /\ InitStore
    /\ InitSession
    /\ InitUtils

SpecModels == InitModels /\ [][NextModels]_vars

\* The same passes for a store built with progress_reporter=None or with a
\* reporter, on every initial assignment of one dataset.
InitReporter ==
    /\ spike_clusters \in [1 .. NSpikes -> 0 .. MaxInitCluster]
    /\ features_masks = [s \in 1 .. NSpikes |->
                            PatternRow(IF s % 2 = 1 THEN "A" ELSE "B")]
    /\ progress_reporter \in {None, "pr"}
    /\ InitStore
    /\ InitSession
    /\ InitUtils

NextReporter ==
    \/ Generate \/ GenerateFails
    \/ LoopStep \/ Extra \/ Close \/ Fail \/ Interrupt

SpecReporter == InitReporter /\ [][NextReporter]_vars

\* ---------------------------------------------------- session.py: Session
\* The public actions on an opened session. Each returns after self.emit has
\* run every callback connected to 'cluster'. The session is opened once
\* on_open has built self.clustering (line 384) and no pass is running: the
\* actions run as well when the open has raised afterwards.
Opened == pc \in {"done", "failed"} /\ lastOp # "none"

ClusterIds == Range(clustering.spike_clusters)

\* An action that records an entry needs room in the bounded global history.
HistoryRoom == global_history.pos < MaxHistory

Emit(op, cl, md, gh, up, add_to_stack) ==
    LET st == EmitLoop([gh |-> gh, store |-> [disk |-> disk, mem |-> mem],
                        calls |-> <<>>],
                       callbacks, up, add_to_stack)
    IN /\ nactions < MaxActions
       /\ nactions' = nactions + 1
       /\ clustering' = cl
       /\ cluster_metadata' = md
       /\ global_history' = st.gh
       /\ disk' = st.store.disk
       /\ mem' = st.store.mem
       /\ lastOp' = op
       /\ lastUp' = up
       /\ updateCalls' = st.calls
       /\ usedIds' = usedIds \cup Range(cl.spike_clusters)
       /\ UNCHANGED <<pc, spc, to_store, spikes, iteration, nameIdx, cursors, files,
                      handles, npass, nfailures, warned, writes, prevExit, prevDisk, prevMem,
                      writeLog, progress_reporter, reports>>
       /\ UNCHANGED <<callbacks, cluster_store, constVars>>

\* Session.merge (lines 355-357)
Merge ==
    /\ Opened
    /\ HistoryRoom
    /\ clustering.new_cluster_id <= MaxCluster
    /\ \E clusters \in SUBSET ClusterIds :
          /\ Cardinality(clusters) >= 2
          /\ LET r == Clustering_merge(clustering, clusters)
             IN Emit("merge", r.cl, cluster_metadata, global_history, r.up, TRUE)

\* Session.split (lines 359-361)
Split ==
    /\ Opened
    /\ HistoryRoom
    /\ \E sel \in (SUBSET Spikes) \ {{}} :
          /\ SplitResult(clustering, sel).next - 1 <= MaxCluster
          /\ LET r == Clustering_split(clustering, sel)
             IN Emit("split", r.cl, cluster_metadata, global_history, r.up, TRUE)

\* Clusters that are given a group over the life of the model.
MaxGrouped == 1

\* Session.move (lines 363-365)
Move ==
    /\ Opened
    /\ HistoryRoom
    /\ \E cluster \in ClusterIds, group \in Groups :
          /\ Cardinality(DOMAIN cluster_metadata \cup {cluster}) <= MaxGrouped
          /\ LET r == Metadata_set_group(cluster_metadata, <<cluster>>, group)
             IN Emit("move", clustering, r.md, global_history, r.up, TRUE)

\* Session.undo (lines 367-369): GlobalHistory.undo() steps back and calls undo()
\* on the controllers of the entry, _process_ups combines their records.
Undo ==
    /\ Opened
    /\ global_history.pos > 0
    /\ clustering.pos > 0
    /\ \E rolled_back \in BOOLEAN :
          LET controllers == global_history.stack[global_history.pos]
              r == Clustering_undo(clustering, rolled_back)
              ups == [i \in DOMAIN controllers |-> r.up]
          IN Emit("undo", r.cl, cluster_metadata,
                  [global_history EXCEPT !.pos = @ - 1], _process_ups(ups), FALSE)

\* Session.redo (lines 371-373)
Redo ==
    /\ Opened
    /\ global_history.pos < Len(global_history.stack)
    /\ clustering.pos < Len(clustering.stack)
    /\ LET controllers == global_history.stack[global_history.pos + 1]
           r == Clustering_redo(clustering)
           ups == [i \in DOMAIN controllers |-> r.up]
       IN Emit("redo", r.cl, cluster_metadata,
               [global_history EXCEPT !.pos = @ + 1], _process_ups(ups), FALSE)

\* Session.show_waveforms, show_features and show_correlograms (lines 473-480):
\* _show_view builds the view on self.cluster_store and connects the
\* on_cluster of the view to the 'cluster' event (lines 442-444).
ShowView ==
    /\ Opened
    /\ cluster_store # None
    /\ Cardinality({i \in DOMAIN callbacks :
                       callbacks[i] = "_show_view.on_cluster"}) < MaxViews
    /\ callbacks' = Append(callbacks, "_show_view.on_cluster")
    /\ UNCHANGED <<clustering, cluster_metadata, global_history, lastOp, lastUp,
                   updateCalls, usedIds, cluster_store, nactions>>
    /\ UNCHANGED <<genVars, constVars>>

\* A view is closed: its on_close unconnects the callbacks of that view
\* (lines 458-460).
CloseView ==
    /\ \E i \in DOMAIN callbacks :
          /\ callbacks[i] = "_show_view.on_cluster"
          /\ callbacks' = SubSeq(callbacks, 1, i - 1)
                            \o SubSeq(callbacks, i + 1, Len(callbacks))
    /\ UNCHANGED <<clustering, cluster_metadata, global_history, lastOp, lastUp,
                   updateCalls, usedIds, cluster_store, nactions>>
    /\ UNCHANGED <<genVars, constVars>>

\* The session is explored on one dataset: spikes alternate between the rows
\* and take the initial clusters in turn.
Init ==
    /\ spike_clusters = [s \in 1 .. NSpikes |-> (s - 1) % (MaxInitCluster + 1)]
    /\ features_masks = [s \in 1 .. NSpikes |->
                            PatternRow(IF s % 2 = 1 THEN "A" ELSE "B")]
    /\ progress_reporter = "pr"
    /\ InitStore
    /\ InitSession
    /\ InitUtils

Next ==
    \/ Open \/ OpenFails \/ LoopStep \/ Extra \/ Close \/ Fail
    \/ Merge \/ Split \/ Move \/ Undo \/ Redo
    \/ ShowView \/ CloseView

Spec == Init /\ [][Next]_vars

\* ------------------------------------------------- the helpers of _utils.py
\* Values of the per-spike array given to the helpers.
MaxDatum == 2

\* The per-cluster arrays of a per-spike array: row i of a cluster's array is
\* the datum of the cluster's i-th spike.
PerClusterArrays(spikes_per_cluster, data) ==
    [c \in DOMAIN spikes_per_cluster |->
        [i \in DOMAIN spikes_per_cluster[c] |-> data[spikes_per_cluster[c][i] + 1]]]

\* _concatenate_per_cluster_arrays on the per-cluster arrays of the input.
Concatenate ==
    /\ u_pc = "in"
    /\ u_pc' = "concatenate"
    /\ LET spikes_per_cluster == _spikes_per_cluster(arange(Len(u_sc)), u_sc)
       IN u_out' = _concatenate_per_cluster_arrays(
                       spikes_per_cluster, PerClusterArrays(spikes_per_cluster, u_data))
    /\ UNCHANGED <<u_sc, u_data, u_ups, u_ups_after, modelVars, genVars, sessVars>>

InitHelpers ==
    /\ u_pc = "in"
    /\ u_sc \in [1 .. NSpikes -> 0 .. MaxInitCluster]
    /\ u_data \in [1 .. NSpikes -> 0 .. MaxDatum]
    /\ u_out = <<>>
    /\ u_ups = <<>>
    /\ u_ups_after = <<>>
    /\ spike_clusters = [s \in 1 .. NSpikes |-> 0]
    /\ features_masks = [s \in 1 .. NSpikes |-> PatternRow("A")]
    /\ progress_reporter = "pr"
    /\ InitStore
    /\ InitSession

\* _process_ups on the two records of one action: the record of a merge or of
\* a split of the assignment u_sc, and the record of a change of group.
ProcessUps ==
    /\ u_pc = "in"
    /\ u_pc' = "process_ups"
    /\ \E part \in {Clustering_merge(NewClustering(u_sc), clusters).up :
                        clusters \in {S \in SUBSET Range(u_sc) : Cardinality(S) >= 2}}
                   \cup {Clustering_split(NewClustering(u_sc), sel).up :
                            sel \in (SUBSET Spikes) \ {{}}},
          meta \in {Metadata_set_group(<<>>, <<c>>, group).up :
                        c \in Range(u_sc), group \in Groups},
          first \in {"clustering", "cluster_metadata"} :
          LET ups == IF first = "clustering" THEN <<part, meta>> ELSE <<meta, part>>
          IN /\ u_ups' = ups
             /\ u_out' = _process_ups(ups)
             /\ u_ups_after' = _process_ups_args(ups)
    /\ UNCHANGED <<u_sc, u_data, modelVars, genVars, sessVars>>

NextUtils == Concatenate

SpecUtils == InitHelpers /\ [][NextUtils]_vars

\* _spikes_per_cluster(spike_ids, spike_clusters) on arrays of at most NSpikes
\* elements: u_data holds the spike ids, u_sc their labels.
PerCluster ==
    /\ u_pc = "in"
    /\ u_pc' = "spikes_per_cluster"
    /\ u_out' = _spikes_per_cluster(u_data, u_sc)
    /\ UNCHANGED <<u_sc, u_data, u_ups, u_ups_after, modelVars, genVars, sessVars>>

InitPerCluster ==
    /\ u_pc = "in"
    /\ \E n \in 0 .. NSpikes :
          /\ u_sc \in [1 .. n -> 0 .. MaxInitCluster]
          /\ u_data \in [1 .. n -> 0 .. MaxDatum]
    /\ u_out = <<>>
    /\ u_ups = <<>>
    /\ u_ups_after = <<>>
    /\ spike_clusters = [s \in 1 .. NSpikes |-> 0]
    /\ features_masks = [s \in 1 .. NSpikes |-> PatternRow("A")]
    /\ progress_reporter = "pr"
    /\ InitStore
    /\ InitSession

NextPerCluster == PerCluster

SpecPerCluster == InitPerCluster /\ [][NextPerCluster]_vars

\* _flatten_spikes_per_cluster on the mapping _spikes_per_cluster gives for
\* the spike ids 0 .. n-1 and the labels u_sc.
Flatten ==
    /\ u_pc = "in"
    /\ u_pc' = "flatten"
    /\ u_out' = _flatten_spikes_per_cluster(
                    _spikes_per_cluster(arange(Len(u_sc)), u_sc))
    /\ UNCHANGED <<u_sc, u_data, u_ups, u_ups_after, modelVars, genVars, sessVars>>

InitFlatten ==
    /\ u_pc = "in"
    /\ \E n \in 1 .. NSpikes :
          /\ u_sc \in [1 .. n -> 0 .. MaxCluster]
          /\ u_data = arange(n)
    /\ u_out = <<>>
    /\ u_ups = <<>>
    /\ u_ups_after = <<>>
    /\ spike_clusters = [s \in 1 .. NSpikes |-> 0]
    /\ features_masks = [s \in 1 .. NSpikes |-> PatternRow("A")]
    /\ progress_reporter = "pr"
    /\ InitStore
    /\ InitSession

NextFlatten == Flatten

SpecFlatten == InitFlatten /\ [][NextFlatten]_vars

\* The lists of at most MaxDatum cluster ids.
ClusterLists ==
    UNION {[1 .. n -> 0 .. (MaxInitCluster + 1)] : n \in 0 .. MaxDatum}

\* _update_cluster_selection on the selection u_data and the record u_ups[1].
UpdateSelection ==
    /\ u_pc = "in"
    /\ u_pc' = "update_cluster_selection"
    /\ u_out' = _update_cluster_selection(u_data, u_ups[1])
    /\ UNCHANGED <<u_sc, u_data, u_ups, u_ups_after, modelVars, genVars, sessVars>>

\* A selection and a record whose added clusters are new ones, as the records
\* of a Clustering are: none of them is among the deleted clusters.
InitSelection ==
    /\ u_pc = "in"
    /\ u_sc = <<>>
    /\ u_data \in ClusterLists
    /\ \E added \in ClusterLists, deleted \in ClusterLists :
          /\ Range(added) \cap Range(deleted) = {}
          /\ u_ups = <<update_info([added |-> added, deleted |-> deleted])>>
    /\ u_out = <<>>
    /\ u_ups_after = <<>>
    /\ spike_clusters = [s \in 1 .. NSpikes |-> 0]
    /\ features_masks = [s \in 1 .. NSpikes |-> PatternRow("A")]
    /\ progress_reporter = "pr"
    /\ InitStore
    /\ InitSession

NextSelection == UpdateSelection

SpecSelection == InitSelection /\ [][NextSelection]_vars

\* _process_ups on the records of every initial assignment.
InitCombine ==
    /\ u_pc = "in"
    /\ u_sc \in [1 .. NSpikes -> 0 .. MaxInitCluster]
    /\ u_data = [s \in 1 .. NSpikes |-> 0]
    /\ u_out = <<>>
    /\ u_ups = <<>>
    /\ u_ups_after = <<>>
    /\ spike_clusters = [s \in 1 .. NSpikes |-> 0]
    /\ features_masks = [s \in 1 .. NSpikes |-> PatternRow("A")]
    /\ progress_reporter = "pr"
    /\ InitStore
    /\ InitSession

NextCombine == ProcessUps

SpecCombine == InitCombine /\ [][NextCombine]_vars

\* ======================================================== checked properties
\* The rows of a cluster in the current partition, by ascending spike id.
SpikesOf(sc, c) == SortedSeq({k - 1 : k \in {j \in DOMAIN sc : sc[j] = c}})

EntryCorrect(d, sc, c, name) ==
    /\ DiskHas(d, c, name)
    /\ DiskLoad(d, c, name).rows = ExpectedRows(features_masks, SpikesOf(sc, c), name)

\* C1: after open and any sequence of merge / split / undo / redo, every cluster
\* of the current partition has 'features' and 'masks' entries on disk whose
\* rows are the data of the cluster's current spikes.
C1_CacheCorrect ==
    (pc = "done" /\ cluster_metadata = <<>>) =>
        \A c \in ClusterIds : \A name \in NameSet :
            EntryCorrect(disk, clustering.spike_clusters, c, name)

\* C2: the complete generate that follows a generate interrupted in its
\* distribution loop leaves every cluster's entries holding the data of all of
\* the cluster's spikes.
C2_ResumeRepairs ==
    (pc = "done" /\ prevExit = "killed") =>
        \A c \in DOMAIN spc : \A name \in NameSet :
            EntryCorrect(disk, spike_clusters, c, name)

\* The zero-probe of _prepare_file fires for an entry: it exists with the
\* expected shape and its first and last rows are all zero.
ProbeFires(d, c, name, n_spikes) ==
    /\ DiskHas(d, c, name)
    /\ DiskLoad(d, c, name).shape = _shape(name, n_spikes)
    /\ RowAllZero(DiskLoad(d, c, name), 1)
    /\ RowAllZero(DiskLoad(d, c, name), n_spikes)

PassStarts == npass' = npass + 1

\* C3 as stated: when the zero-probe fires, the entry is left as it is and is
\* not marked for population.
C3_ProbeKeepsEntry ==
    [][PassStarts =>
        \A c \in DOMAIN spc' : \A name \in NameSet :
            ProbeFires(disk, c, name, Len(spc'[c])) =>
                /\ DiskLoad(disk', c, name) = DiskLoad(disk, c, name)
                /\ ~to_store'[c][name]]_vars

\* C3 amended: when the zero-probe fires, the warning is logged, the entry is
\* recreated as an all-zero array of the expected shape and it is marked for
\* population.
C3_ProbeRegenerates ==
    [][PassStarts =>
        \A c \in DOMAIN spc' : \A name \in NameSet :
            ProbeFires(disk, c, name, Len(spc'[c])) =>
                /\ <<c, name>> \in warned'
                /\ DiskLoad(disk', c, name) = zeros(_shape(name, Len(spc'[c])))
                /\ to_store'[c][name]]_vars

\* A pass has started on an entry whose first and last rows were zero while
\* another row held data.
C3_Witness ==
    /\ pc = "loop"
    /\ iteration = 0
    /\ \E k \in warned : prevDisk[k] # zeros(prevDisk[k].shape)

\* C4: a generate run right after a completed generate leaves every disk entry
\* and every memory field as the first run left them.
C4_Idempotent ==
    (pc = "done" /\ prevExit = "done") => (disk = prevDisk /\ mem = prevMem)

\* A second run has completed, and it regenerated an entry.
C4_Witness == pc = "done" /\ prevExit = "done" /\ warned # {}

\* C5: a merge or split leaves the disk entries of every cluster that is
\* neither added nor deleted by the emitted record unchanged.
C5_CacheLocality ==
    [][(Opened /\ lastOp' \in {"merge", "split"}) =>
        \A k \in DOMAIN disk :
            k[1] \notin Range(lastUp'.added) \cup Range(lastUp'.deleted) =>
                (k \in DOMAIN disk' /\ disk'[k] = disk[k])]_vars

\* A merge has left a cluster of the partition with entries on disk untouched.
C5_Witness ==
    /\ lastOp = "merge"
    /\ \E k \in DOMAIN disk :
          /\ k[1] \in ClusterIds
          /\ k[1] \notin Range(lastUp.added) \cup Range(lastUp.deleted)

\* C6: after the distribution loop, for every cluster and field marked for
\* population, row i holds the data of the cluster's i-th smallest spike, every
\* row was written exactly once and the cursor equals the number of spikes.
C6_DistributionOrder ==
    pc \in {"extra", "close"} =>
        \A c \in DOMAIN to_store : \A name \in NameSet :
            to_store[c][name] =>
                /\ DiskLoad(disk, c, name).rows
                     = ExpectedRows(features_masks, SpikesOf(spike_clusters, c), name)
                /\ \A i \in DOMAIN writes[<<c, name>>] : writes[<<c, name>>][i] = 1
                /\ cursors[<<c, name>>] = Len(SpikesOf(spike_clusters, c))

\* The loop has filled a cluster of several spikes whose rows differ.
C6_Witness ==
    /\ pc = "extra"
    /\ \E c \in DOMAIN to_store :
          /\ to_store[c]["masks"]
          /\ Len(spc[c]) >= 2
          /\ DiskLoad(disk, c, "masks").rows[1] # DiskLoad(disk, c, "masks").rows[2]

\* C7: concatenating the per-cluster arrays of a per-spike array gives back the
\* per-spike array.
C7_RoundTrip == u_pc = "concatenate" => u_out = u_data

\* The helper was applied where the clusters do not follow the spike order and
\* the data distinguish the spikes.
C7_Witness ==
    /\ u_pc = "concatenate"
    /\ u_sc[1] > u_sc[2]
    /\ u_data[1] # u_data[2]

\* C8: no cluster file opened by a pass is left open once the pass has exited,
\* normally or by a failure.
C8_HandlesReleased == ~Running => handles = {}

\* C9: after the aggregation pass of a generate on a new store, main_channels
\* of every cluster holds the unmasked channels by descending mean mask.
C9_MainChannelsRanked ==
    (pc \in {"close", "done"} /\ prevExit = "idle") => \A c \in DOMAIN mem :
        LET mc == mem[c].main_channels
            mean == mem[c].mean_masks
        IN /\ Range(mc) = {ch - 1 : ch \in {x \in DOMAIN mean :
                                              mean[x][1] * ThresholdDen > mean[x][2]}}
           /\ \A i, j \in DOMAIN mc :
                 i < j => ~RatLess(mean[mc[i] + 1], mean[mc[j] + 1])

\* C10: every merge, split, move, undo or redo of a session whose open has
\* returned gives its record to cluster_store.update exactly once.
C10_UpdateOnce ==
    (pc = "done" /\ lastOp \in {"merge", "split", "move", "undo", "redo"})
        => updateCalls = <<lastUp>>

\* C11: in every state of an opened session, whatever merges, splits, undos and
\* redos led to it, the group -> items sequences hold every spike of the
\* population exactly once.
C11_PartitionComplete ==
    Opened =>
        LET spikes_per_cluster == SpikesPerCluster(clustering)
        IN \A s \in Spikes :
              Cardinality({p \in {<<c, i>> : c \in DOMAIN spikes_per_cluster,
                                             i \in 1 .. NSpikes} :
                              /\ p[2] <= Len(spikes_per_cluster[p[1]])
                              /\ spikes_per_cluster[p[1]][p[2]] = s}) = 1

\* A split that divided a cluster has been undone and several clusters remain.
C11_Witness ==
    /\ Opened
    /\ lastOp = "undo"
    /\ Cardinality(Range(lastUp.deleted)) >= 2
    /\ Cardinality(ClusterIds) >= 2

\* C12 (monotonic ids) has no formula. Session.merge, split, undo and redo
\* (lines 355-373) pass on the records of Clustering and allocate nothing;
\* whether an id comes back depends on the counter of Clustering after an
\* undo, which is described in two ways (Clustering_undo), and on the counter
\* of the Clustering that on_open builds anew from model.spike_clusters
\* (lines 383-384). Both outcomes of an undo are behaviours of Spec.

\* The assignment that the record up of a change led away from: the spikes of
\* the record go back to the cluster that old_spikes_per_cluster lists them in.
AssignmentBefore(sc, up) ==
    [k \in DOMAIN sc |->
        IF \E c \in DOMAIN up.old_spikes_per_cluster :
              (k - 1) \in Range(up.old_spikes_per_cluster[c])
        THEN CHOOSE c \in DOMAIN up.old_spikes_per_cluster :
                (k - 1) \in Range(up.old_spikes_per_cluster[c])
        ELSE sc[k]]

\* C13: an undo issued right after a merge restores the spike -> cluster
\* assignment and the set of cluster ids that the session had before the merge.
C13_UndoExact ==
    [][(lastOp = "merge" /\ lastOp' = "undo")
        => /\ clustering'.spike_clusters
                = AssignmentBefore(clustering.spike_clusters, lastUp)
           /\ Range(clustering'.spike_clusters)
                = (ClusterIds \ Range(lastUp.added)) \cup Range(lastUp.deleted)]_vars

\* The second of two merges has been undone: the partition is the one the
\* first merge made.
C13_Witness ==
    /\ lastOp = "undo"
    /\ clustering.pos = 1
    /\ Len(clustering.stack) = 2
    /\ Len(lastUp.deleted) = 1
    /\ Len(lastUp.added) >= 2
    /\ clustering.spike_clusters # clustering.base

\* What a pass started on the disk store d0 leaves on disk, from the inputs
\* alone: the entries _clusters_to_store marks hold the rows of the cluster's
\* spikes, the other entries are as they were.
DiskAfterPass(d0, spikes_per_cluster) ==
    LET prep == _clusters_to_store(d0, spikes_per_cluster)
    IN [k \in DOMAIN prep.disk |->
          IF k[1] \in DOMAIN prep.to_store /\ prep.to_store[k[1]][k[2]]
          THEN [shape |-> _shape(k[2], Len(spikes_per_cluster[k[1]])),
                rows |-> ExpectedRows(features_masks,
                                      SpikesOf(spike_clusters, k[1]), k[2])]
          ELSE prep.disk[k]]

RECURSIVE WritesAfterPass(_, _, _)
\* The row writes of that pass, in order: by ascending spike, 'masks' before
\* 'features', each at the rank of the spike in its cluster.
WritesAfterPass(marks, todo, k) ==
    IF k > Len(todo) THEN <<>>
    ELSE LET spike == todo[k]
             cluster == spike_clusters[spike + 1]
             row == Cardinality({s \in 0 .. (spike - 1) :
                                    spike_clusters[s + 1] = cluster})
             one(name) == IF marks[cluster][name] THEN <<<<cluster, name, row>>>>
                          ELSE <<>>
         IN one("masks") \o one("features") \o WritesAfterPass(marks, todo, k + 1)

\* C14: a completed pass ends with the disk entries, the memory fields and the
\* sequence of row writes that the inputs determine, the same whether the
\* store item has a progress reporter or None.
C14_ReporterNeutral ==
    pc = "done" =>
        LET spikes_per_cluster == _spikes_per_cluster(arange(NSpikes), spike_clusters)
            marks == _clusters_to_store(prevDisk, spikes_per_cluster).to_store
        IN /\ disk = DiskAfterPass(prevDisk, spikes_per_cluster)
           /\ mem = ExtraLoop(prevMem, disk, SortedSeq(DOMAIN spikes_per_cluster))
           /\ writeLog = WritesAfterPass(marks, spikes, 1)
           /\ (progress_reporter = None) = (reports = <<>>)

\* A pass without a reporter has completed after an interrupted one, and it
\* wrote rows.
C14_Witness ==
    /\ pc = "done"
    /\ progress_reporter = None
    /\ prevExit = "killed"
    /\ writeLog # <<>>
    /\ \E c \in DOMAIN mem : mem[c].n_unmasked_channels > 0

\* The record of the partition change and the record of the metadata change
\* among the two records given to _process_ups.
PartitionDiff(ups) == CHOOSE u \in Range(ups) : u.description \in {"merge", "assign"}

MetadataDiff(ups) == CHOOSE u \in Range(ups) : u.description = "metadata_group"

\* C15: the record _process_ups returns for the two records of one action holds
\* added, deleted, descendants and spikes of the partition record and
\* metadata_changed and metadata_value of the metadata record.
C15_CombineMerges ==
    u_pc = "process_ups" =>
        /\ u_out.added = PartitionDiff(u_ups).added
        /\ u_out.deleted = PartitionDiff(u_ups).deleted
        /\ u_out.descendants = PartitionDiff(u_ups).descendants
        /\ u_out.spikes = PartitionDiff(u_ups).spikes
        /\ u_out.metadata_changed = MetadataDiff(u_ups).metadata_changed
        /\ u_out.metadata_value = MetadataDiff(u_ups).metadata_value

\* C18: once _process_ups has combined two records, each of the records it
\* was given holds the field values it held before the call.
C18_InputsUnchanged == u_pc = "process_ups" => u_ups_after = u_ups

\* The entry of a cluster for a field is absent from the disk store d, or its
\* shape is not the one expected for n_spikes spikes.
EntryUnusable(d, c, name, n_spikes) ==
    \/ ~DiskHas(d, c, name)
    \/ DiskLoad(d, c, name).shape # _shape(name, n_spikes)

\* C16: a pass that finds an entry absent or of another shape than expected
\* recreates it as an all-zero array of the expected shape and marks it for
\* population; when the pass has completed the entry holds the rows of the
\* cluster's spikes.
C16_ShapeRegenerates ==
    [][/\ PassStarts =>
            \A c \in DOMAIN spc' : \A name \in NameSet :
                EntryUnusable(disk, c, name, Len(spc'[c])) =>
                    /\ DiskLoad(disk', c, name) = zeros(_shape(name, Len(spc'[c])))
                    /\ to_store'[c][name]
       /\ (pc = "close" /\ pc' = "done") =>
            \A c \in DOMAIN spc : \A name \in NameSet :
                EntryUnusable(prevDisk, c, name, Len(spc[c])) =>
                    EntryCorrect(disk', spike_clusters, c, name)]_vars

\* A pass has completed on a cluster whose entry had another shape when the
\* pass started.
C16_Witness ==
    /\ pc = "done"
    /\ \E c \in DOMAIN spc : \E name \in NameSet :
          /\ DiskHas(prevDisk, c, name)
          /\ DiskLoad(prevDisk, c, name).shape # DiskLoad(disk, c, name).shape
          /\ DiskLoad(disk, c, name).rows # zeros(DiskLoad(disk, c, name).shape).rows

\* Session.redo has an entry to apply again.
RedoAvailable ==
    /\ global_history.pos < Len(global_history.stack)
    /\ clustering.pos < Len(clustering.stack)

\* The step is a public action of the opened session, which emits 'cluster':
\* it is not the showing or the closing of a view, which connect and
\* unconnect callbacks and leave the last action as it is.
ActionReturns == Opened /\ callbacks' = callbacks

\* C17: undo and redo record no history entry; a merge or a split records
\* exactly one, on top of the entries below the cursor, so that no redo is left
\* after it; after a merge followed by an undo a redo is available.
C17_HistoryRecording ==
    [][/\ (ActionReturns /\ lastOp' \in {"undo", "redo"}) =>
            global_history'.stack = global_history.stack
       /\ (ActionReturns /\ lastOp' \in {"merge", "split"}) =>
            /\ global_history'.stack
                 = Append(SubSeq(global_history.stack, 1, global_history.pos),
                          <<"clustering">>)
            /\ global_history'.pos = global_history.pos + 1
            /\ ~RedoAvailable'
       /\ (lastOp = "merge" /\ lastOp' = "undo") => RedoAvailable']_vars

\* A merge or a split has followed the undo of the only action: the entry of
\* the undone action is gone.
C17_Witness ==
    /\ lastOp \in {"merge", "split"}
    /\ global_history.pos = 1
    /\ Len(global_history.stack) = 1
    /\ clustering.new_cluster_id - 1 \notin Range(clustering.base)
    /\ \E u \in usedIds : /\ u \notin Range(clustering.base)
                          /\ u \notin Range(clustering.spike_clusters)

\* C19: an undo issued right after a move leaves the partition as it is and
\* its record is the change of the metadata of the moved clusters.
C19_UndoRevertsMove ==
    [][(lastOp = "move" /\ lastOp' = "undo")
        => /\ clustering'.spike_clusters = clustering.spike_clusters
           /\ lastUp'.metadata_changed = lastUp.metadata_changed
           /\ cluster_metadata' # cluster_metadata]_vars

\* C20: for non-empty arrays,
\* the mapping _spikes_per_cluster returns has the distinct labels as its
\* keys, and its value for a label is ascending and holds exactly the spike
\* ids that carry the label, as many times as they carry it.
C20_SpikesPerCluster ==
    (u_pc = "spikes_per_cluster" /\ Len(u_sc) > 0) =>
        /\ DOMAIN u_out = Range(u_sc)
        /\ \A c \in DOMAIN u_out :
              /\ \A i, j \in DOMAIN u_out[c] : i < j => u_out[c][i] <= u_out[c][j]
              /\ \A x \in 0 .. MaxDatum :
                    Cardinality({i \in DOMAIN u_out[c] : u_out[c][i] = x})
                      = Cardinality({k \in DOMAIN u_sc : u_sc[k] = c /\ u_data[k] = x})

\* The helper was applied to labels and spike ids that are not in order, with
\* a label that several spikes carry.
C20_Witness ==
    /\ u_pc = "spikes_per_cluster"
    /\ Len(u_sc) = NSpikes
    /\ u_sc[1] > u_sc[2]
    /\ u_sc[2] = u_sc[3]
    /\ u_data[2] > u_data[3]

\* C21: flattening the mapping that _spikes_per_cluster gives for the spike
\* ids 0 .. n-1 and an assignment array gives back the assignment array.
C21_FlattenRoundTrip == u_pc = "flatten" => u_out = u_sc

\* The round trip was made on labels that are not in order, with a label that
\* several spikes carry and a gap between the labels.
C21_Witness ==
    /\ u_pc = "flatten"
    /\ Len(u_sc) = NSpikes
    /\ u_sc[1] > u_sc[2] + 1
    /\ u_sc[1] = u_sc[3]


\* C22: with added and deleted disjoint, _update_cluster_selection returns the
\* selected clusters that are not deleted, in the order they had, followed by
\* the added clusters that were not selected; no deleted cluster is in the
\* result and every added cluster is.
C22_SelectionUpdate ==
    (/\ u_pc = "update_cluster_selection"
     /\ Range(u_ups[1].added) \cap Range(u_ups[1].deleted) = {})
    => LET up == u_ups[1]
           Kept(clu) == clu \notin Range(up.deleted)
           Unselected(clu) == clu \notin Range(u_data)
       IN /\ u_out = SelectSeq(u_data, Kept) \o SelectSeq(up.added, Unselected)
          /\ Range(u_out) \cap Range(up.deleted) = {}
          /\ Range(up.added) \subseteq Range(u_out)

\* The selection held a deleted cluster before a kept one, and the record
\* added the kept cluster and one that was not selected.
C22_Witness ==
    /\ u_pc = "update_cluster_selection"
    /\ Len(u_data) = 2
    /\ u_data[1] \in Range(u_ups[1].deleted)
    /\ u_data[2] \notin Range(u_ups[1].deleted)
    /\ Len(u_ups[1].added) = 2
    /\ u_ups[1].added[1] = u_data[2]
    /\ u_ups[1].added[2] \notin Range(u_data)
    /\ u_out = <<u_data[2], u_ups[1].added[2]>>


\* The clusters of the pass with one field judged valid and the other marked
\* for population.
MixedClusters == {c \in DOMAIN to_store : to_store[c].masks # to_store[c].features}

MarkedField(c) == IF to_store[c].masks THEN "masks" ELSE "features"

ValidField(c) == IF to_store[c].masks THEN "features" ELSE "masks"

\* The number of rows the pass has written so far for a field of a cluster.
WritesTo(c, name) ==
    Cardinality({k \in DOMAIN writeLog :
                    writeLog[k][1] = c /\ writeLog[k][2] = name})

\* C23: for a cluster with one field judged valid and the other marked for
\* population, the pass writes only the marked field, the entry of the valid
\* field stays as it was before the pass, the cursor of the valid field stays
\* at zero and the cursor of the marked field counts the rows written to it,
\* one per spike of the cluster once the loop is over.
C23_FieldIndependence ==
    \A c \in MixedClusters :
        LET valid == <<c, ValidField(c)>>
            marked == <<c, MarkedField(c)>>
        IN /\ valid \in DOMAIN prevDisk
           /\ disk[valid] = prevDisk[valid]
           /\ WritesTo(c, ValidField(c)) = 0
           /\ \A i \in DOMAIN writes[valid] : writes[valid][i] = 0
           /\ pc \in {"loop", "extra", "close"} =>
                 /\ cursors[valid] = 0
                 /\ cursors[marked] = WritesTo(c, MarkedField(c))
           /\ pc \in {"extra", "close"} => cursors[marked] = Len(spc[c])

\* The loop is over for a pass that found the masks of a cluster valid and
\* populated its features, one row per spike.
C23_Witness ==
    /\ pc = "extra"
    /\ \E c \in MixedClusters :
          /\ MarkedField(c) = "features"
          /\ cursors[<<c, "features">>] = Len(spc[c])
          /\ cursors[<<c, "features">>] >= 2
          /\ WritesTo(c, "features") >= 2

====
